---- MODULE Spec2Model ----
(***************************************************************************)
(* Connection lifecycle and event registry of the Code for IBM i           *)
(* extension: Instance (src/src/Instance.ts) and the extension set-up that *)
(* uses it (src/src/instantiate.ts).                                       *)
(*                                                                         *)
(* Execution model.  The extension host is single threaded.  A step of the *)
(* model is one synchronous segment of JavaScript: either an event of the  *)
(* environment (a call of the public API, a settled network attempt, an    *)
(* answered prompt, a settled editor command), run up to the next await of *)
(* every function it enters, or the continuation at the head of the        *)
(* microtask queue `mq`.  Environment events are taken only when the       *)
(* microtask queue is empty, as the host drains it first.                  *)
(***************************************************************************)
EXTENDS Integers, Sequences, FiniteSets, TLC

(***************************************************************************)
(* Bounds of the model.                                                    *)
(***************************************************************************)
MaxSubs == 3        \* calls of subscribe / onEvent
MaxFires == 2       \* calls of fire made by the environment
MaxConnects == 2    \* calls of Instance.connect (each constructs one IBMi)
MaxAttempts == 2    \* attempts of one connect call (first one and retries)
MaxDisconnects == 1 \* runs of the disconnect command
MaxDrops == 2       \* drops reported by the drop detectors
MaxDocs == 2        \* open text documents seen by the disconnect command

VARIABLES
  connection,        \* Instance.connection: a handle id, or None
  storageName,       \* Instance.storage's connection name
  lastConnection,    \* IBMi.GlobalStorage's last connection
  handles,           \* the IBMi objects constructed so far, by id
  subscribers,       \* Instance.subscribers: event -> ordered Map of entries
  deprecationCount,  \* Instance.deprecationCount
  frames,            \* activations of async functions, by id
  mq,                \* microtask queue: ids of frames whose await has settled
  history,           \* per event, the subscribe/onEvent calls made, in order
  fireLog,           \* the finished fires the environment made: what ran
  budget,            \* calls the environment may still make
  lastOp             \* what the last step did (for statements about one step)

vars == <<connection, storageName, lastConnection, handles, subscribers,
          deprecationCount, frames, mq, history, fireLog, budget, lastOp>>

None == 0

\* What a step did, for the statements about one step: the operation, the
\* handle it was about, a fact about its input and what it returned.
NoOp ==
  [op |-> "none", ev |-> "", h |-> None, flag |-> FALSE, pos |-> 0,
   ret |-> FALSE, outcome |-> "", raised |-> FALSE]

Events == {"connected", "disconnected"}

(***************************************************************************)
(* The mutable state as one record, so that a synchronous call chain       *)
(* (dispose -> disconnected callback -> setConnection -> fire -> handlers) *)
(* is a composition of functions on it.                                    *)
(***************************************************************************)
Cur ==
  [connection |-> connection, storageName |-> storageName,
   lastConnection |-> lastConnection, handles |-> handles,
   subscribers |-> subscribers, deprecationCount |-> deprecationCount,
   frames |-> frames, mq |-> mq, history |-> history, fireLog |-> fireLog,
   lastOp |-> NoOp]

Commit(S) ==
  /\ connection' = S.connection
  /\ storageName' = S.storageName
  /\ lastConnection' = S.lastConnection
  /\ handles' = S.handles
  /\ subscribers' = S.subscribers
  /\ deprecationCount' = S.deprecationCount
  /\ frames' = S.frames
  /\ mq' = S.mq
  /\ history' = S.history
  /\ fireLog' = S.fireLog
  /\ lastOp' = S.lastOp

(***************************************************************************)
(* Frames.  One record shape for every async activation.                   *)
(*   kind   connect | disconnect | setConnection | processEvent | timeout  *)
(*   pc     where the activation is suspended; "done" when it has returned *)
(*   parent the frame awaiting this one (None: the call was not awaited)   *)
(***************************************************************************)
\* The scan of no document at all.
NoScan ==
  [unsaved |-> FALSE, first |-> 0, awaits |-> FALSE, doDisconnect |-> TRUE]

BlankFrame ==
  [kind |-> "none", pc |-> "done", parent |-> None, h |-> None,
   ev |-> "", idx |-> 0, key |-> "", func |-> "", tr |-> FALSE,
   settle |-> "", recon |-> FALSE, result |-> "none", attempts |-> 0,
   confirms |-> 0,
   name |-> "", seen |-> None, outcome |-> "", src |-> None,
   traced |-> FALSE, snap |-> <<>>, log |-> <<>>, overlapped |-> FALSE,
   since |-> 0, after |-> 0, scan |-> NoScan]

FrameIds(S) == 1..Len(S.frames)

\* The id a new activation gets: the first free one.
FreeId(S) ==
  IF \E f \in FrameIds(S) : S.frames[f].kind = "none"
  THEN CHOOSE f \in FrameIds(S) :
         /\ S.frames[f].kind = "none"
         /\ \A g \in 1..(f - 1) : S.frames[g].kind # "none"
  ELSE Len(S.frames) + 1

NewFrame(S, fr) ==
  IF FreeId(S) > Len(S.frames)
  THEN [S EXCEPT !.frames = Append(@, fr)]
  ELSE [S EXCEPT !.frames[FreeId(S)] = fr]

RECURSIVE Trim(_)
Trim(fs) ==
  IF fs # <<>> /\ fs[Len(fs)].kind = "none"
  THEN Trim(SubSeq(fs, 1, Len(fs) - 1)) ELSE fs

\* The activation is over: its id is free again.
Free(S, f) == [S EXCEPT !.frames = Trim([@ EXCEPT ![f] = BlankFrame])]

SetFrame(S, f, fr) == [S EXCEPT !.frames[f] = fr]

Enqueue(S, f) == [S EXCEPT !.mq = Append(@, f)]

\* An activation returns: whoever awaits it is resumed by a microtask.
Return(S, f) ==
  LET p == S.frames[f].parent
      S1 == Free(S, f)
  IN IF p = None THEN S1 ELSE Enqueue(S1, p)

(***************************************************************************)
(* Subscribed functions.  They are code of other extensions; what the      *)
(* registry can tell about one is how its call ends:                       *)
(*   sync    "return" | "throw"   the call itself returns or throws        *)
(*   settle  "micro" | "macro"    the awaited value settles at once (a     *)
(*                                plain value, an async function without   *)
(*                                await) or later (pending I/O)            *)
(*   outcome "ok" | "reject"      how the awaited value settles            *)
(***************************************************************************)
Behaviour(func) ==
  CASE func = "f1" -> [sync |-> "return", settle |-> "micro", outcome |-> "ok"]
    [] func = "f2" -> [sync |-> "throw", settle |-> "micro", outcome |-> "reject"]
    [] func = "f3" -> [sync |-> "return", settle |-> "macro", outcome |-> "reject"]
    [] func = "f4" -> [sync |-> "return", settle |-> "micro", outcome |-> "ok"]
    [] func = "f5" -> [sync |-> "return", settle |-> "micro", outcome |-> "ok"]
    [] func = "onConnected" ->
         [sync |-> "return", settle |-> "macro", outcome |-> "ok"]
    [] func = "onDisconnected" ->
         [sync |-> "return", settle |-> "micro", outcome |-> "ok"]
    [] OTHER -> [sync |-> "return", settle |-> "micro", outcome |-> "ok"]

(***************************************************************************)
(* The ordered Map of one event: a sequence of entries in insertion order. *)
(***************************************************************************)
\* The sequence with the elements of f, a function on 1..n.
AsSeq(f) == SubSeq(f, 1, Len(f))

KeysOf(m) == AsSeq([i \in 1..Len(m) |-> m[i].key])

HasKey(m, k) == \E i \in 1..Len(m) : m[i].key = k

PosOf(m, k) == CHOOSE i \in 1..Len(m) : m[i].key = k

RemoveAt(m, p) == SubSeq(m, 1, p - 1) \o SubSeq(m, p + 1, Len(m))

\* Map.prototype.set, broken: a second set of a key adds a second entry.
MapSetAppends(m, k, func, transient) ==
  Append(m, [key |-> k, func |-> func, transient |-> transient])

\* Map.prototype.set, broken: a new key goes to the front.
MapSetPrepends(m, k, func, transient) ==
  IF HasKey(m, k)
  THEN [m EXCEPT ![PosOf(m, k)] =
          [key |-> k, func |-> func, transient |-> transient]]
  ELSE <<[key |-> k, func |-> func, transient |-> transient]>> \o m

\* Map.prototype.set: a present key keeps its place and gets the new value;
\* a new key goes to the end.
MapSet(m, k, func, transient) ==
  IF HasKey(m, k)
  THEN [m EXCEPT ![PosOf(m, k)] =
          [key |-> k, func |-> func, transient |-> transient]]
  ELSE Append(m, [key |-> k, func |-> func, transient |-> transient])

\* Instance.getSubscribers: the event's Map, created empty on first use.
GetSubscribers(S, ev) ==
  IF ev \in DOMAIN S.subscribers
  THEN S
  ELSE [S EXCEPT !.subscribers = (ev :> <<>>) @@ S.subscribers]

\* `${context.extension.id} - ${name}`
SubscriberKey(id, name) == id \o " - " \o name

\* `deprecated - ${func.name || "unknown"}_${this.deprecationCount++}`
DeprecatedKey(funcName, count) ==
  "deprecated - " \o (IF funcName = "" THEN "unknown" ELSE funcName)
     \o "_" \o ToString(count)

Record(S, ev, k, func, transient) ==
  [S EXCEPT !.history[ev] =
     Append(@, [key |-> k, func |-> func, transient |-> transient])]

\* this.getSubscribers(event).set(key, { func, transient })
SubscribeAs(S, ev, k, func, transient) ==
  LET S1 == GetSubscribers(S, ev)
  IN Record([S1 EXCEPT !.subscribers[ev] = MapSet(@, k, func, transient)],
            ev, k, func, transient)

\* Instance.subscribe
Subscribe(S, id, ev, name, func, transient) ==
  SubscribeAs(S, ev, SubscriberKey(id, name), func, transient)

\* onEvent with a key that lacks the counter: `deprecated - ${func.name}`.
OnEventUncounted(S, ev, func, funcName) ==
  LET S1 == GetSubscribers(S, ev)
      k == "deprecated - " \o (IF funcName = "" THEN "unknown" ELSE funcName)
  IN Record([S1 EXCEPT !.subscribers[ev] = MapSet(@, k, func, FALSE),
                       !.deprecationCount = @ + 1],
            ev, k, func, FALSE)

\* Instance.onEvent; funcName is func.name ("" for an anonymous function)
OnEvent(S, ev, func, funcName) ==
  LET S1 == GetSubscribers(S, ev)
      k == DeprecatedKey(funcName, S.deprecationCount)
  IN Record([S1 EXCEPT !.subscribers[ev] = MapSet(@, k, func, FALSE),
                       !.deprecationCount = @ + 1],
            ev, k, func, FALSE)

(***************************************************************************)
(* Map.prototype.delete while iterators are live: an iterator that is past *)
(* the removed entry keeps pointing at the same next entry.                *)
(***************************************************************************)
MapDelete(S, ev, k) ==
  LET m == S.subscribers[ev] IN
  IF ~HasKey(m, k) THEN S
  ELSE LET p == PosOf(m, k) IN
       [S EXCEPT !.subscribers[ev] = RemoveAt(m, p),
                 !.frames = AsSeq([f \in DOMAIN S.frames |->
                    IF /\ S.frames[f].kind = "processEvent"
                       /\ S.frames[f].pc # "done"
                       /\ S.frames[f].ev = ev
                       /\ S.frames[f].idx > p
                    THEN [S.frames[f] EXCEPT !.idx = @ - 1]
                    ELSE S.frames[f]])]

\* The (context.extension.id, name) under which f4 subscribes.
LateOwner == <<"ext.c", "late">>

(***************************************************************************)
(* The two functions instantiate.ts registers (loadAllofExtension) and the *)
(* functions of other extensions, as far as a call of them changes the     *)
(* state of the instance.  HandlerCall is the call up to the function's    *)
(* first await, HandlerResume what the function does after it.             *)
(***************************************************************************)
HandlerCall(S, func, ev, key) ==
  IF func = "f5"
  THEN \* a function of another extension that, when called, subscribes f1
       \* with the context and the name it was subscribed with itself, that
       \* is under its own key, to the event it is called for
       [S |-> SubscribeAs(S, ev, key, "f1", FALSE),
        sync |-> Behaviour(func).sync, settle |-> Behaviour(func).settle,
        outcome |-> Behaviour(func).outcome, h |-> None]
  ELSE
  IF func = "f4"
  THEN \* a function of another extension that, when called, subscribes f1
       \* under a key of its own to the event it is called for
       [S |-> Subscribe(S, LateOwner[1], ev, LateOwner[2], "f1", FALSE),
        sync |-> Behaviour(func).sync, settle |-> Behaviour(func).settle,
        outcome |-> Behaviour(func).outcome, h |-> None]
  ELSE
  IF func = "onConnected"
  THEN \* const connection = instance.connection!; connection.config /
       \* connection.currentConnectionName fail on undefined: the async
       \* function's promise is rejected.
       IF S.connection = None
       THEN [S |-> S, sync |-> "return", settle |-> "micro",
             outcome |-> "reject", h |-> None]
       ELSE [S |-> [S EXCEPT !.lastConnection = S.handles[S.connection].name],
             sync |-> "return", settle |-> "macro", outcome |-> "ok",
             h |-> S.connection]
  ELSE [S |-> S, sync |-> Behaviour(func).sync,
        settle |-> Behaviour(func).settle,
        outcome |-> Behaviour(func).outcome, h |-> None]

HandlerResume(S, func, h) ==
  IF func = "onConnected" /\ h # None
  THEN \* instance.storage = new ConnectionStorage(context, connection.currentConnectionName)
       [S EXCEPT !.storageName = S.handles[h].name]
  ELSE S

(***************************************************************************)
(* Instance.processEvent                                                   *)
(***************************************************************************)
MarkFault(S, f) ==
  [S EXCEPT !.frames[f].log[Len(S.frames[f].log)].fault = TRUE]

\* No catch clause: the fault leaves the loop and the function.
PE_CatchMissing(S, f) ==
  [MarkFault(S, f) EXCEPT !.frames[f].pc = "faulted"]

\* catch (error) { console.error(...) }
PE_Catch(S, f) == MarkFault(S, f)

\* The clean-up, broken: it runs only when the function did not fail.
PE_FinallyOnSuccessOnly(S, f) ==
  LET fr == S.frames[f] IN
  IF fr.tr /\ ~fr.log[Len(fr.log)].fault
  THEN MapDelete(S, fr.ev, fr.key) ELSE S

\* finally { if (callable.transient) eventSubscribers.delete(identity) }
PE_Finally(S, f) ==
  LET fr == S.frames[f] IN
  IF fr.tr THEN MapDelete(S, fr.ev, fr.key) ELSE S

\* processEvent is over: it returned, or a fault left it.
PE_End(S, f) ==
  LET fr == S.frames[f]
      S1 == IF fr.traced
            THEN [S EXCEPT !.fireLog =
                    Append(@, [ev |-> fr.ev, snap |-> fr.snap,
                               log |-> fr.log, overlapped |-> fr.overlapped,
                               since |-> fr.since,
                               upto |-> Len(S.history[fr.ev]),
                               after |-> fr.after,
                               faulted |-> (fr.pc = "faulted")])]
            ELSE S
  IN Free(S1, f)

RECURSIVE PE_Loop(_, _)

\* The call of the current entry's function is over: it threw, or the value
\* it returned has settled.
MarkDone(S, f) ==
  [S EXCEPT !.frames[f].log[Len(S.frames[f].log)].done = TRUE]

\* After the function of the current entry has failed or settled.
PE_Next(S, f, failed) ==
  LET S0 == MarkDone(S, f)
      S1 == IF failed THEN PE_Catch(S0, f) ELSE S0
      S2 == PE_Finally(S1, f)
  IN IF S2.frames[f].pc = "faulted" THEN PE_End(S2, f) ELSE PE_Loop(S2, f)

\* The functions are called one after the other and none is awaited, as
\* by forEach(event => event.func()).
PE_AwaitSkipped(S, f, call) ==
  IF call.sync = "throw" THEN PE_Next(S, f, TRUE) ELSE PE_Loop(S, f)

\* await callable.func(): a throw is caught at once, a value suspends
\* processEvent until it has settled.
PE_Await(S, f, call) ==
  IF call.sync = "throw" THEN PE_Next(S, f, TRUE)
  ELSE IF call.settle = "micro" THEN Enqueue(S, f)
  ELSE S

\* for (const [identity, callable] of eventSubscribers.entries())
PE_Loop(S, f) ==
  LET fr == S.frames[f]
      m == S.subscribers[fr.ev]
  IN IF fr.idx > Len(m)
     THEN PE_End([S EXCEPT !.frames[f].pc = "done"], f)
     ELSE LET e == m[fr.idx]
              call == HandlerCall(S, e.func, fr.ev, e.key)
              fr1 == [fr EXCEPT !.idx = @ + 1, !.key = e.key,
                                !.func = e.func, !.tr = e.transient,
                                !.h = call.h, !.settle = call.settle,
                                !.result = call.outcome, !.pc = "await",
                                !.log = Append(@, [key |-> e.key,
                                                   func |-> e.func,
                                                   transient |-> e.transient,
                                                   fault |-> FALSE,
                                                   done |-> FALSE,
                                                   conn |-> S.connection,
                                                   last |-> S.lastConnection,
                                                   store |-> S.storageName])]
          IN PE_Await(SetFrame(call.S, f, fr1), f, call)

\* The awaited value of callable.func() has settled.
PE_Resume(S, f) ==
  LET fr == S.frames[f]
      S1 == HandlerResume(S, fr.func, fr.h)
  IN PE_Next(S1, f, fr.result = "reject")

ActiveFires(S, ev) ==
  {g \in FrameIds(S) : /\ S.frames[g].kind = "processEvent"
                       /\ S.frames[g].pc = "await"
                       /\ S.frames[g].ev = ev}

\* Instance.fire: the emitter delivers to its one listener, processEvent,
\* which runs up to its first await inside the call of fire.  (src: the
\* handle setConnection fires the event for; log[a].conn, .last, .store:
\* what getConnection(), the last connection of the global storage and the
\* connection name of the storage are when the function is called.)
FireFor(S, ev, traced, src) ==
  LET S1 == GetSubscribers(S, ev)
      act == ActiveFires(S1, ev)
      S2 == [S1 EXCEPT !.frames = AsSeq([g \in DOMAIN S1.frames |->
                IF g \in act THEN [S1.frames[g] EXCEPT !.overlapped = TRUE]
                ELSE S1.frames[g]])]
      fr == [BlankFrame EXCEPT !.kind = "processEvent", !.pc = "await",
                               !.ev = ev, !.idx = 1, !.traced = traced,
                               !.src = src,
                               !.snap = KeysOf(S1.subscribers[ev]),
                               !.since = Len(S1.history[ev]),
                               !.after = Len(S1.fireLog),
                               !.overlapped = (act # {})]
  IN PE_Loop(NewFrame(S2, fr), FreeId(S2))

Fire(S, ev, traced) == FireFor(S, ev, traced, None)

(***************************************************************************)
(* IBMi, the connection handle (src/api/IBMi.ts is not part of the         *)
(* sources at hand; modelled from the specification, section 4.1).         *)
(*   state  "new"       constructed, connect not settled                   *)
(*          "live"      connect succeeded                                  *)
(*          "failed"    connect raised a fault and left the handle as is   *)
(*          "disposed"  disposed, by dispose or by a failed connect        *)
(*   cb     a disconnected callback is registered                          *)
(*   dropped            the drop of this handle has been reported          *)
(* and, to state the properties: wasCurrent, the number of `connected` and *)
(* `disconnected` events fired for the handle, and the last connection in  *)
(* the global storage when `connected` was fired for it.                   *)
(***************************************************************************)
NewHandle ==
  [state |-> "new", name |-> "", cb |-> FALSE, dropped |-> FALSE,
   wasCurrent |-> FALSE, nConnected |-> 0, nDisconnected |-> 0,
   lastAtFire |-> "", via |-> None]

RECURSIVE SC_Call(_, _, _)

\* The callback setConnection registers:
\*   async () => { this.setConnection(); this.fire(`disconnected`); }
DisconnectedCallback(S, h) ==
  LET S1 == SC_Call(S, None, None)
      S2 == [S1 EXCEPT !.handles[h].nDisconnected = @ + 1]
  IN FireFor(S2, "disconnected", FALSE, h)

\* IBMi.dispose: synchronous, idempotent; the teardown of a handle that is
\* not yet disposed runs the registered disconnected callback.
Dispose(S, h) ==
  IF S.handles[h].state = "disposed" THEN S
  ELSE LET S1 == [S EXCEPT !.handles[h].state = "disposed"]
       IN IF S.handles[h].cb THEN DisconnectedCallback(S1, h) ELSE S1

(***************************************************************************)
(* Instance.setConnection                                                  *)
(***************************************************************************)
\* From `if (connection)` on, up to the next await.
SC_Install(S, f) ==
  LET c == S.frames[f].h IN
  IF c # None
  THEN \* setDisconnectedCallback; this.connection = connection;
       \* storage.setConnectionName; GlobalStorage.setLastConnection (the
       \* value is set at once, the promise settles when it is persisted)
       [S EXCEPT !.handles[c].cb = TRUE,
                 !.handles[c].wasCurrent = TRUE,
                 !.connection = c,
                 !.storageName = S.handles[c].name,
                 !.lastConnection = S.handles[c].name,
                 !.frames[f].pc = "setLast"]
  ELSE \* this.connection = undefined; storage.setConnectionName("");
       \* then await executeCommand(setContext) and return.  Only
       \* disconnect calls setConnection() and awaits it, and it goes on to
       \* await its refresh commands: the two waits, with nothing between
       \* them, are the one of Disc_Refresh.
       Return([S EXCEPT !.connection = None, !.storageName = ""], f)

\* setConnection without the dispose of the handle it replaces.
SC_CallNoDispose(S, c, parent) ==
  LET fr == [BlankFrame EXCEPT !.kind = "setConnection", !.pc = "start",
                               !.h = c, !.parent = parent]
  IN SC_Install(NewFrame(S, fr), FreeId(S))

\* The call: `if (this.connection) await this.connection.dispose()`.
SC_Call(S, c, parent) ==
  LET fr == [BlankFrame EXCEPT !.kind = "setConnection", !.pc = "disposed",
                               !.h = c, !.parent = parent]
  IN IF S.connection # None
     THEN LET S1 == Dispose(S, S.connection)
          IN Enqueue(NewFrame(S1, fr), FreeId(S1))
     ELSE SC_Install(NewFrame(S, fr), FreeId(S))

\* After `await IBMi.GlobalStorage.setLastConnection(...)`:
\* this.fire(`connected`), then await executeCommand(setContext).
SC_FireConnected(S, f) ==
  LET c == S.frames[f].h
      S1 == [S EXCEPT !.handles[c].nConnected = @ + 1,
                      !.handles[c].lastAtFire = S.lastConnection]
      S2 == [S1 EXCEPT !.frames[f].pc = "setContext"]
  IN FireFor(S2, "connected", FALSE, c)

\* setConnection that ends by clearing the slot and the storage name.
SC_EndClears(S, f) ==
  Return([S EXCEPT !.connection = None, !.storageName = ""], f)

\* After `await vscode.commands.executeCommand(`setContext`, ...)`:
\* setConnection returns.
SC_End(S, f) == Return(S, f)

(***************************************************************************)
(* Instance.disconnect                                                     *)
(***************************************************************************)
\* The call: await this.setConnection()
Disc_Call(S, parent) ==
  LET fr == [BlankFrame EXCEPT !.kind = "disconnect", !.pc = "setConnection",
                               !.parent = parent]
  IN SC_Call(NewFrame(S, fr), None, FreeId(S))

\* After setConnection: await Promise.all([...three refresh commands]),
\* after which nothing is left to do but to return.
Disc_Refresh(S, f) ==
  IF S.frames[f].parent = None THEN Return(S, f)
  ELSE [S EXCEPT !.frames[f].pc = "refresh"]

(***************************************************************************)
(* Instance.connect                                                        *)
(***************************************************************************)
\* The call: new IBMi(), then the first attempt is under way.
Connect_Call(S, name, reconnecting) ==
  LET S1 == [S EXCEPT !.handles = Append(@, NewHandle)]
      fr == [BlankFrame EXCEPT !.kind = "connect", !.pc = "attempt",
                               !.h = Len(S1.handles), !.name = name,
                               !.recon = reconnecting]
  IN NewFrame(S1, fr)

\* The attempt without the catch clause: a fault of connection.connect
\* leaves the loop and connect, whose promise is rejected.
Connect_SettledUncaught(S, f, outcome) ==
  LET c == S.frames[f].h
      S1 == [S EXCEPT
               !.handles[c].name = S.frames[f].name,
               !.handles[c].state =
                  CASE outcome = "success" -> "live"
                    [] outcome = "failure" -> "disposed"
                    [] OTHER -> "failed",
               !.frames[f].attempts = @ + 1,
               !.frames[f].outcome = outcome,
               !.frames[f].result =
                  IF outcome = "success" THEN "ok" ELSE "fail"]
  IN IF outcome = "success"
     THEN SC_Call([S1 EXCEPT !.frames[f].pc = "setConnection"], c, f)
     ELSE IF outcome = "fault"
     THEN Return([S1 EXCEPT !.lastOp =
                    [NoOp EXCEPT !.op = "connect", !.h = c, !.flag = TRUE,
                                 !.outcome = outcome, !.raised = TRUE]], f)
     ELSE Disc_Call([S1 EXCEPT !.frames[f].pc = "disconnect"], f)

\* connection.connect(...) has settled: "success", "failure" (a result
\* with success false; the handle is left disposed) or "fault" (it raised;
\* the catch clause makes the result { success: false }).
Connect_Settled(S, f, outcome) ==
  LET c == S.frames[f].h
      S1 == [S EXCEPT
               !.handles[c].name = S.frames[f].name,
               !.frames[f].outcome = outcome,
               !.handles[c].state =
                  CASE outcome = "success" -> "live"
                    [] outcome = "failure" -> "disposed"
                    [] OTHER -> "failed",
               !.frames[f].attempts = @ + 1,
               !.frames[f].result =
                  IF outcome = "success" THEN "ok" ELSE "fail"]
  IN IF outcome = "success"
     THEN SC_Call([S1 EXCEPT !.frames[f].pc = "setConnection"], c, f)
     ELSE Disc_Call([S1 EXCEPT !.frames[f].pc = "disconnect"], f)

\* The end of connect, without the dispose of a failed handle.
Connect_ReturnNoDispose(S, f) ==
  Return([S EXCEPT !.lastOp =
            [NoOp EXCEPT !.op = "connect", !.h = S.frames[f].h,
                         !.flag = (S.handles[S.frames[f].h].state # "disposed"),
                         !.outcome = S.frames[f].outcome,
                         !.ret = (S.frames[f].result = "ok")]], f)

\* if (result.success === false) connection.dispose(); return result;
\* (lastOp.flag: the handle was not disposed when the loop was left;
\* lastOp.outcome: how the last attempt settled; lastOp.raised: connect
\* ended by a fault, not by a result)
Connect_Return(S, f) ==
  LET c == S.frames[f].h
      S1 == IF S.frames[f].result = "fail" THEN Dispose(S, c) ELSE S
  IN Return([S1 EXCEPT !.lastOp =
               [NoOp EXCEPT !.op = "connect", !.h = c,
                            !.flag = (S.handles[c].state # "disposed"),
                            !.outcome = S.frames[f].outcome,
                            !.ret = (S.frames[f].result = "ok")]], f)

\* The retry without the prompt: a failed attempt of a reconnecting call is
\* followed by another one at once.
Connect_ResumeUnasked(S, f) ==
  IF S.frames[f].pc = "setConnection" THEN Connect_Return(S, f)
  ELSE IF S.frames[f].recon
       THEN [S EXCEPT !.frames[f].pc = "attempt"]
       ELSE Connect_Return(S, f)

\* The continuation of connect after setConnection or disconnect returned.
Connect_Resume(S, f) ==
  IF S.frames[f].pc = "setConnection" THEN Connect_Return(S, f)
  ELSE IF S.frames[f].recon
       THEN [S EXCEPT !.frames[f].pc = "prompt"]   \* `Could not reconnect`
       ELSE Connect_Return(S, f)

\* The answer to `Could not reconnect`: "Yes" starts another attempt with
\* the same handle, anything else ends the loop.
Connect_Answer(S, f, yes) ==
  IF yes THEN [S EXCEPT !.frames[f].pc = "attempt", !.frames[f].confirms = @ + 1]
  ELSE Connect_Return(S, f)

(***************************************************************************)
(* timeoutHandler, the drop callback of one connect call                   *)
(***************************************************************************)
\* The drop of handle h is reported: `Connection lost` is shown.
Timeout_Call(S, h, name) ==
  NewFrame([S EXCEPT !.handles[h].dropped = TRUE],
           [BlankFrame EXCEPT !.kind = "timeout", !.pc = "prompt",
                              !.h = h, !.name = name])

\* The reconnect without the flag: this.connect(options).
Timeout_AnswerPlainConnect(S, f, yes) ==
  LET name == S.frames[f].name
      S1 == Disc_Call(Free(S, f), None)
      S2 == Connect_Call(S1, name, FALSE)
  IN IF yes
     THEN [S2 EXCEPT !.handles[Len(S2.handles)].via = S.frames[f].h]
     ELSE S1

\* The answer: this.disconnect() is called and not awaited; on "Yes" the
\* handler awaits this.connect({...options, reconnecting: true}) and ends.
Timeout_Answer(S, f, yes) ==
  LET name == S.frames[f].name
      S1 == Disc_Call(Free(S, f), None)
      S2 == Connect_Call(S1, name, TRUE)
  IN IF yes
     THEN \* (via: the handle whose drop this connect answers)
          [S2 EXCEPT !.handles[Len(S2.handles)].via = S.frames[f].h]
     ELSE S1

(***************************************************************************)
(* disconnect of instantiate.ts, behind the command code-for-ibmi.disconnect *)
(***************************************************************************)
Schemes == {"member", "streamfile", "file"}

Documents ==
  [scheme : Schemes, isClosed : BOOLEAN, isDirty : BOOLEAN]

DocumentLists ==
  UNION {[1..n -> Documents] : n \in 0..MaxDocs}

\* !document.isClosed && [`member`, `streamfile`].includes(document.uri.scheme)
Backed(d) == ~d.isClosed /\ d.scheme \in {"member", "streamfile"}

Unsaved(docs) == \E i \in 1..Len(docs) : Backed(docs[i]) /\ docs[i].isDirty

FirstUnsaved(docs) ==
  IF Unsaved(docs)
  THEN CHOOSE i \in 1..Len(docs) :
         /\ Backed(docs[i]) /\ docs[i].isDirty
         /\ \A j \in 1..(i - 1) : ~(Backed(docs[j]) /\ docs[j].isDirty)
  ELSE 0

\* The loop over vscode.workspace.textDocuments: the value of doDisconnect
\* after it.  (A clean document of the connection is shown and closed.)
RECURSIVE ScanDocuments(_, _)
ScanDocuments(docs, doDisconnect) ==
  IF docs = <<>> THEN doDisconnect
  ELSE ScanDocuments(Tail(docs),
                     IF Backed(Head(docs)) /\ Head(docs).isDirty
                     THEN FALSE ELSE doDisconnect)

\* The scan, looking at the first document only.
DoDisconnectFirstOnly(docs) ==
  docs = <<>> \/ ~(Backed(docs[1]) /\ docs[1].isDirty)

DoDisconnect(docs) == ScanDocuments(docs, TRUE)

\* What the loop leaves behind for a list of documents: whether it met an
\* unsaved document of the connection and where, whether it awaited the
\* editor (every document of the connection is shown: one await at least),
\* and doDisconnect.
ScanOf(docs) ==
  [unsaved |-> Unsaved(docs), first |-> FirstUnsaved(docs),
   awaits |-> \E i \in 1..Len(docs) : Backed(docs[i]),
   doDisconnect |-> DoDisconnect(docs)]

DocumentScans == {ScanOf(docs) : docs \in DocumentLists}

\* The end of disconnect(), ending the handle while it is still current.
Disconnect_EndKeepsSlot(S, scan) ==
  LET S1 == IF scan.doDisconnect /\ S.connection # None
            THEN Dispose(S, S.connection)
            ELSE S
  IN [S1 EXCEPT !.lastOp =
        [NoOp EXCEPT !.op = "command", !.h = S.connection,
                     !.flag = scan.unsaved, !.pos = scan.first,
                     !.ret = scan.doDisconnect]]

\* if (doDisconnect) { if (instance.connection) { ...; instance.connection
\* = undefined; connection.end(); } }  return doDisconnect;
\* (end: the teardown of the handle)
Disconnect_End(S, scan) ==
  LET S1 == IF scan.doDisconnect /\ S.connection # None
            THEN Dispose([S EXCEPT !.connection = None], S.connection)
            ELSE S
  IN [S1 EXCEPT !.lastOp =
        [NoOp EXCEPT !.op = "command", !.h = S.connection,
                     !.flag = scan.unsaved, !.pos = scan.first,
                     !.ret = scan.doDisconnect]]

\* disconnect(): with no document of the connection open the loop awaits
\* nothing and the function runs to its end at once.
Disconnect_Call(S, scan) ==
  IF scan.awaits
  THEN NewFrame(S, [BlankFrame EXCEPT !.kind = "command", !.pc = "editors",
                                      !.scan = scan])
  ELSE Disconnect_End(S, scan)

Disconnect_Resume(S, f) == Disconnect_End(Free(S, f), S.frames[f].scan)

(***************************************************************************)
(* Initial states.                                                         *)
(***************************************************************************)
\* Who subscribes: (context.extension.id, name)
Owners == {<<"ext.a", "refresh">>, <<"ext.a", "notify">>, <<"ext.b", "notify">>}
Funcs == {"f1", "f2", "f3"}
\* The functions subscribed where subscribers subscribe in their turn.
LateFuncs == {"f1", "f3", "f4"}
\* The functions subscribed where a subscriber subscribes again under its
\* own key.
SelfFuncs == {"f1", "f5"}

\* new Instance(context)
Constructed ==
  [connection |-> None, storageName |-> "", lastConnection |-> "",
   handles |-> <<>>, subscribers |-> [e \in {} |-> <<>>],
   deprecationCount |-> 0, frames |-> <<>>, mq |-> <<>>,
   history |-> [connected |-> <<>>, disconnected |-> <<>>], fireLog |-> <<>>, lastOp |-> NoOp]

\* loadAllofExtension:
\*   instance.onEvent("connected", () => onConnected(context));
\*   instance.onEvent("disconnected", onDisconnected);
Loaded ==
  OnEvent(OnEvent(Constructed, "connected", "onConnected", ""),
          "disconnected", "onDisconnected", "onDisconnected")

StartWith(S, b) ==
  /\ connection = S.connection
  /\ storageName = S.storageName
  /\ lastConnection = S.lastConnection
  /\ handles = S.handles
  /\ subscribers = S.subscribers
  /\ deprecationCount = S.deprecationCount
  /\ frames = S.frames
  /\ mq = S.mq
  /\ history = S.history
  /\ fireLog = S.fireLog
  /\ lastOp = NoOp
  /\ budget = b

\* The registry on its own: a constructed instance, nothing registered.
InitBus == StartWith(Constructed, [subs |-> MaxSubs, fires |-> MaxFires,
                                   drops |-> 0, cmds |-> 0, funcs |-> Funcs,
                                   dfuncs |-> {"f1"}])

\* The registry, with subscribers that subscribe when they are called.
InitLate == StartWith(Constructed, [subs |-> MaxSubs, fires |-> MaxFires,
                                    drops |-> 0, cmds |-> 0,
                                    funcs |-> LateFuncs, dfuncs |-> {"f1"}])

\* The registry, with subscribers that subscribe again under their own key.
InitSelf == StartWith(Constructed, [subs |-> MaxSubs, fires |-> MaxFires,
                                    drops |-> 0, cmds |-> 0,
                                    funcs |-> SelfFuncs, dfuncs |-> {"f3"}])

\* The registry, with functions of every behaviour registered by onEvent.
InitDep == StartWith(Constructed, [subs |-> MaxSubs, fires |-> MaxFires,
                                   drops |-> 0, cmds |-> 0,
                                   funcs |-> {"f1"}, dfuncs |-> Funcs])

\* The extension after activation: connects, retries and drops.
Init == StartWith(Loaded, [subs |-> 0, fires |-> 0,
                           drops |-> MaxDrops, cmds |-> 0, funcs |-> {},
                           dfuncs |-> {}])

\* The extension after activation: connects, retries and the command
\* code-for-ibmi.disconnect.
InitCmd == StartWith(Loaded, [subs |-> 0, fires |-> 0,
                              drops |-> 0, cmds |-> MaxDisconnects,
                              funcs |-> {}, dfuncs |-> {}])

(***************************************************************************)
(* Steps.                                                                  *)
(***************************************************************************)
ConnectionNames == {"A", "B"}

Idle == mq = <<>>

Suspended(kind, pc) ==
  {f \in 1..Len(frames) : frames[f].kind = kind /\ frames[f].pc = pc}

\* The continuation at the head of the microtask queue.
Continue(S, f) ==
  LET fr == S.frames[f] IN
  CASE fr.kind = "setConnection" -> SC_Install(S, f)
    [] fr.kind = "disconnect" -> Disc_Refresh(S, f)
    [] fr.kind = "connect" -> Connect_Resume(S, f)
    [] fr.kind = "processEvent" -> PE_Resume(S, f)
    [] OTHER -> S

RunMicrotask ==
  /\ mq # <<>>
  /\ Commit(Continue([Cur EXCEPT !.mq = Tail(mq)], Head(mq)))
  /\ UNCHANGED budget

\* Another extension calls instance.subscribe(context, event, name, func, transient).
EnvSubscribe ==
  /\ Idle /\ budget.subs > 0
  /\ \E o \in Owners, ev \in Events, func \in budget.funcs,
        transient \in BOOLEAN :
       Commit([Subscribe(Cur, o[1], ev, o[2], func, transient)
                 EXCEPT !.lastOp = [NoOp EXCEPT !.op = "subscribe", !.ev = ev]])
  /\ budget' = [budget EXCEPT !.subs = @ - 1]

\* Another extension calls the deprecated instance.onEvent(event, func).
EnvOnEvent ==
  /\ Idle /\ budget.subs > 0
  /\ \E ev \in Events, func \in budget.dfuncs, named \in BOOLEAN :
       Commit([OnEvent(Cur, ev, func, IF named THEN func ELSE "")
                 EXCEPT !.lastOp = [NoOp EXCEPT !.op = "onEvent", !.ev = ev]])
  /\ budget' = [budget EXCEPT !.subs = @ - 1]

\* Another extension calls instance.fire(event).
EnvFire ==
  /\ Idle /\ budget.fires > 0
  /\ \E ev \in Events :
       Commit([Fire(Cur, ev, TRUE)
                 EXCEPT !.lastOp = [NoOp EXCEPT !.op = "fire", !.ev = ev]])
  /\ budget' = [budget EXCEPT !.fires = @ - 1]

\* The pending value a subscribed function returned settles.
HandlerSettles ==
  /\ Idle
  /\ \E f \in Suspended("processEvent", "await") :
       /\ frames[f].settle = "macro"
       /\ Commit(PE_Resume(Cur, f))
  /\ UNCHANGED budget

\* A caller (the connection browser, another extension) calls
\* instance.connect({ data, reconnecting }).  Nothing tells one connection
\* name from another but being the same or not: the first call takes "A".
EnvConnect ==
  /\ Idle /\ Len(handles) < MaxConnects
  /\ \E name \in ConnectionNames, reconnecting \in BOOLEAN :
       /\ handles = <<>> => name = "A"
       /\ Commit(Connect_Call(Cur, name, reconnecting))
  /\ UNCHANGED budget

AttemptSettles ==
  /\ Idle
  /\ \E f \in Suspended("connect", "attempt"),
        outcome \in {"success", "failure", "fault"} :
       Commit(Connect_Settled(Cur, f, outcome))
  /\ UNCHANGED budget

\* The user answers `Could not reconnect`.
RetryAnswered ==
  /\ Idle
  /\ \E f \in Suspended("connect", "prompt"), yes \in BOOLEAN :
       /\ yes => frames[f].attempts < MaxAttempts
       /\ Commit(Connect_Answer(Cur, f, yes))
  /\ UNCHANGED budget

\* The drop detector of a live handle reports the drop, once.
Drop ==
  /\ Idle /\ budget.drops > 0
  /\ \E h \in 1..Len(handles) :
       /\ handles[h].state = "live" /\ ~handles[h].dropped
       /\ Commit(Timeout_Call(Cur, h, handles[h].name))
  /\ budget' = [budget EXCEPT !.drops = @ - 1]

\* The user answers `Connection lost`.
DropAnswered ==
  /\ Idle
  /\ \E f \in Suspended("timeout", "prompt"), yes \in BOOLEAN :
       /\ yes => Len(handles) < MaxConnects
       /\ Commit(Timeout_Answer(Cur, f, yes))
  /\ UNCHANGED budget

\* The user runs code-for-ibmi.disconnect while connected: disconnect() is
\* called and not awaited.
Command ==
  /\ Idle /\ budget.cmds > 0 /\ connection # None
  /\ \E scan \in DocumentScans : Commit(Disconnect_Call(Cur, scan))
  /\ budget' = [budget EXCEPT !.cmds = @ - 1]

\* showErrorMessage / showTextDocument / closeActiveEditor have settled.
EditorsSettle ==
  /\ Idle
  /\ \E f \in Suspended("command", "editors") :
       Commit(Disconnect_Resume(Cur, f))
  /\ UNCHANGED budget

\* GlobalStorage.setLastConnection has persisted the value.
SetLastSettles ==
  /\ Idle
  /\ \E f \in Suspended("setConnection", "setLast") :
       Commit(SC_FireConnected(Cur, f))
  /\ UNCHANGED budget

\* executeCommand(`setContext`, `code-for-ibmi:connected`, ...) has settled.
SetContextSettles ==
  /\ Idle
  /\ \E f \in Suspended("setConnection", "setContext") :
       Commit(SC_End(Cur, f))
  /\ UNCHANGED budget

\* The three refresh commands of disconnect have settled.
RefreshSettles ==
  /\ Idle
  /\ \E f \in Suspended("disconnect", "refresh") :
       Commit(Return(Cur, f))
  /\ UNCHANGED budget

NextBus ==
  \/ RunMicrotask
  \/ EnvSubscribe
  \/ EnvOnEvent
  \/ EnvFire
  \/ HandlerSettles

Next ==
  \/ RunMicrotask
  \/ HandlerSettles
  \/ EnvConnect
  \/ AttemptSettles
  \/ RetryAnswered
  \/ Drop
  \/ DropAnswered
  \/ SetLastSettles
  \/ SetContextSettles
  \/ RefreshSettles

NextCmd ==
  \/ RunMicrotask
  \/ HandlerSettles
  \/ EnvConnect
  \/ AttemptSettles
  \/ RetryAnswered
  \/ Command
  \/ EditorsSettle
  \/ SetLastSettles
  \/ SetContextSettles
  \/ RefreshSettles

SpecBus == InitBus /\ [][NextBus]_vars

SpecLate == InitLate /\ [][NextBus]_vars

SpecDep == InitDep /\ [][NextBus]_vars

SpecSelf == InitSelf /\ [][NextBus]_vars

Spec == Init /\ [][Next]_vars

SpecCmd == InitCmd /\ [][NextCmd]_vars
(***************************************************************************)
(* Properties of the registry (SpecBus).                                   *)
(* history[ev] is the sequence of subscribe / onEvent calls made for ev;   *)
(* fireLog holds, for each finished call of fire, the keys the event had   *)
(* when it began (snap), what it invoked in order (log), the lengths of    *)
(* history[ev] when it began and ended (since, upto), the number of fires  *)
(* that had finished when it began (after), and whether another fire of    *)
(* the event ran during it (overlapped).                                   *)
(***************************************************************************)
NoRepeat(q) == \A i, j \in 1..Len(q) : q[i] = q[j] => i = j

\* The keys of the first n registrations made for ev.
Registered(ev, n) == [i \in 1..n |-> history[ev][i].key]

\* The place of the first registration of key k for ev.
FirstInsertion(ev, k) ==
  CHOOSE i \in 1..Len(history[ev]) :
    /\ history[ev][i].key = k
    /\ \A j \in 1..(i - 1) : history[ev][j].key # k

Invoked(L) == [a \in 1..Len(L.log) |-> L.log[a].key]

SubscriberKeys == {SubscriberKey(o[1], o[2]) : o \in Owners}

\* C1: when the registrations made for an event up to the end of a fire
\* all have different keys, the fire invokes the functions in the order in
\* which their keys were inserted, and a fire that no other fire of the
\* event overlaps invokes every entry the event had when the fire began.
C1_InsertionOrder ==
  \A n \in 1..Len(fireLog) :
    LET L == fireLog[n] IN
    NoRepeat(Registered(L.ev, L.upto)) =>
      /\ \A a, b \in 1..Len(L.log) :
           a < b => FirstInsertion(L.ev, L.log[a].key)
                      < FirstInsertion(L.ev, L.log[b].key)
      /\ ~L.overlapped =>
           \A i \in 1..Len(L.snap) : \E a \in 1..Len(L.log) :
             L.log[a].key = L.snap[i]

\* A fire has invoked three entries made by three subscribe calls with
\* three different keys.
C1_Witness ==
  \E n \in 1..Len(fireLog) :
    LET L == fireLog[n] IN
    /\ NoRepeat(Registered(L.ev, L.upto))
    /\ Len(L.log) = 3
    /\ \A a \in 1..3 : L.log[a].key \in SubscriberKeys

\* The last of the first n registrations made for ev under key k.
LastRegistration(ev, k, n) ==
  history[ev][CHOOSE i \in 1..n :
                /\ history[ev][i].key = k
                /\ \A j \in (i + 1)..n : history[ev][j].key # k]

\* A step that is a call of subscribe with a key the event already has.
C2_Resubscribe ==
  LET ev == lastOp'.ev
      r == history'[ev][Len(history'[ev])]
  IN (/\ lastOp'.op = "subscribe"
      /\ ev \in DOMAIN subscribers
      /\ HasKey(subscribers[ev], r.key))
     => LET m == subscribers[ev]
            p == PosOf(m, r.key)
        IN /\ Len(subscribers'[ev]) = Len(m)
           /\ subscribers'[ev][p] = r
           /\ \A i \in 1..Len(m) : i # p => subscribers'[ev][i] = m[i]
           /\ NoRepeat(KeysOf(subscribers'[ev]))

\* What a fire invokes when nothing is registered while it runs: no key
\* twice, and under each key the function registered last.
C2_FiresLatest ==
  \A n \in 1..Len(fireLog) :
    LET L == fireLog[n] IN
    L.since = L.upto =>
      /\ NoRepeat(Invoked(L))
      /\ \A a \in 1..Len(L.log) :
           L.log[a].func = LastRegistration(L.ev, L.log[a].key, L.since).func

\* C2: a call of subscribe with a key the event's collection already has
\* puts the new function in the place of the old one: the entry keeps its
\* position, every other entry is untouched and the key is there once; a
\* later fire invokes, under that key, the new function only, and once.
C2_ReplaceInPlace == [][C2_Resubscribe]_vars /\ []C2_FiresLatest

\* A key registered first with f1 was registered again with another
\* function after a second key had been added, and a later fire invoked
\* the new function, first, and the second key after it.
C2_Witness ==
  \E n \in 1..Len(fireLog) :
    LET L == fireLog[n]
        H == history[L.ev]
    IN /\ L.since = L.upto /\ L.since = 3
       /\ H[1].key = H[3].key /\ H[2].key # H[1].key
       /\ H[1].func = "f1" /\ H[3].func # "f1" /\ ~H[1].transient
       /\ H[1].key \in SubscriberKeys
       /\ Len(L.log) = 2
       /\ L.log[1].key = H[1].key /\ L.log[1].func = H[3].func
       /\ L.log[2].key = H[2].key

\* The key k was registered exactly once among the first n registrations.
RegisteredOnce(ev, k, n) ==
  Cardinality({i \in 1..n : history[ev][i].key = k}) = 1

\* C3: of two fires of an event, the second begun after the first had
\* finished, the second invokes no transient entry the first has invoked,
\* whether its function returned or failed, and invokes every non-transient
\* entry the first has invoked (entries whose key was registered once).
C3_TransientRemoved ==
  \A i, j \in 1..Len(fireLog) :
    LET A == fireLog[i]
        B == fireLog[j]
    IN (i <= B.after /\ A.ev = B.ev) =>
         \A a \in 1..Len(A.log) :
           LET e == A.log[a] IN
           RegisteredOnce(A.ev, e.key, B.upto) =>
             (e.transient <=> \A b \in 1..Len(B.log) : B.log[b].key # e.key)

\* A fire invoked a non-transient entry, a transient one that returned and
\* a transient one that failed; the next fire invoked the first one only.
C3_Witness ==
  \E i, j \in 1..Len(fireLog) :
    LET A == fireLog[i]
        B == fireLog[j]
    IN /\ i <= B.after /\ A.ev = B.ev
       /\ B.upto = 3 /\ NoRepeat(Registered(A.ev, 3))
       /\ Len(A.log) = 3
       /\ \E a, b, c \in 1..3 :
            /\ ~A.log[a].transient /\ A.log[a].func = "f1"
            /\ A.log[b].transient /\ ~A.log[b].fault
            /\ A.log[c].transient /\ A.log[c].fault
            /\ Invoked(B) = <<A.log[a].key>>

\* C4: no fault of a subscribed function leaves processEvent, and a fire
\* in which a function failed has still invoked, in order, every entry the
\* event had when the fire began (no other fire of the event overlapping).
C4_FaultIsolated ==
  \A n \in 1..Len(fireLog) :
    LET L == fireLog[n] IN
    /\ ~L.faulted
    /\ ((\E a \in 1..Len(L.log) : L.log[a].fault) /\ ~L.overlapped) =>
         /\ Len(L.snap) <= Len(L.log)
         /\ \A i \in 1..Len(L.snap) : L.log[i].key = L.snap[i]

\* A fire whose first function threw and whose second returned a promise
\* that was rejected has invoked the third, which returned.
C4_Witness ==
  \E n \in 1..Len(fireLog) :
    LET L == fireLog[n] IN
    /\ ~L.overlapped /\ Len(L.snap) = 3 /\ Len(L.log) = 3
    /\ L.log[1].func = "f2" /\ L.log[1].fault
    /\ L.log[2].func = "f3" /\ L.log[2].fault
    /\ L.log[3].func = "f1" /\ ~L.log[3].fault

(***************************************************************************)
(* Properties of connect and disconnect (Spec, SpecCmd).                   *)
(* lastOp tells what the step just taken was: the return of a call of      *)
(* connect (op "connect", its handle h, ret: result.success) or of the     *)
(* disconnect of instantiate.ts (op "command", h: instance.connection when *)
(* the document loop was over, flag: an unsaved document of the connection *)
(* was open, pos: its place among the documents, ret: the value returned). *)
(***************************************************************************)
\* C5: for every handle `connected` is fired at most once, with the last
\* connection of the global storage equal to the handle's connection name;
\* when connect returns a result with success true, it has been fired once.
C5_ConnectedOnce ==
  /\ \A h \in 1..Len(handles) :
       /\ handles[h].nConnected <= 1
       /\ handles[h].nConnected = 1 =>
            handles[h].lastAtFire = handles[h].name
  /\ (lastOp.op = "connect" /\ lastOp.ret) =>
       handles[lastOp.h].nConnected = 1

C10_Refusal ==
  (lastOp'.op = "command" /\ lastOp'.flag) =>
    /\ ~lastOp'.ret
    /\ UNCHANGED <<connection, storageName, lastConnection, handles,
                   subscribers, mq>>

\* C10: when an open document with scheme member or streamfile is dirty,
\* wherever it stands among the documents, disconnect returns false and
\* leaves the current handle, the storage and the registry as they are:
\* nothing is disposed, nothing is fired.
C10_RefusesUnsaved == [][C10_Refusal]_vars

\* The disconnect has returned false while a live handle is current, the
\* unsaved document being the second of the documents.
C10_Witness ==
  /\ lastOp.op = "command" /\ lastOp.flag /\ lastOp.pos = 2 /\ ~lastOp.ret
  /\ connection # None /\ connection = lastOp.h
  /\ handles[connection].state = "live"
  /\ handles[connection].nDisconnected = 0

\* The calls of connect that have not returned.
ConnectsInFlight == {f \in 1..Len(frames) : frames[f].kind = "connect"}

\* C11: at most one call of connect is in flight: none is begun while
\* another one (its retry loop, its setConnection or disconnect included)
\* has not returned.
C11_SingleAttempt == Cardinality(ConnectsInFlight) <= 1

\* The key under which f4 subscribes.
LateKey == SubscriberKey(LateOwner[1], LateOwner[2])

Registers(ev, k) == \E i \in 1..Len(history[ev]) : history[ev][i].key = k

\* C12: an entry a subscribed function adds, under a new key, to the event
\* it is called for is not invoked by the fire that called the function
\* (every fire that invokes it began after it was registered), and every
\* fire begun after it was registered invokes it.
C12_LateEntryWaits ==
  \A n \in 1..Len(fireLog) :
    LET L == fireLog[n] IN
    Registers(L.ev, LateKey) =>
      ((\E a \in 1..Len(L.log) : L.log[a].key = LateKey)
         <=> FirstInsertion(L.ev, LateKey) <= L.since)

\* The invocations of a fire, in the order they were started, are all over
\* but possibly the latest.
OneAtATime(log) == \A a \in 1..(Len(log) - 1) : log[a].done

\* C13: within one fire the function of an entry is not called before the
\* call of the entry before it is over, by its value having settled or by
\* a fault: at any time at most the latest invocation of a fire is still
\* running, and none is when processEvent has returned.
C13_HandlersInSequence ==
  /\ \A f \in 1..Len(frames) :
       frames[f].kind = "processEvent" => OneAtATime(frames[f].log)
  /\ \A n \in 1..Len(fireLog) :
       \A a \in 1..Len(fireLog[n].log) : fireLog[n].log[a].done

\* A fire whose first function settled later (pending I/O) and failed has
\* gone on to its second function, which is pending in turn.
C13_Witness ==
  \E f \in 1..Len(frames) :
    /\ frames[f].kind = "processEvent" /\ frames[f].pc = "await"
    /\ Len(frames[f].log) >= 2
    /\ frames[f].log[1].func = "f3" /\ frames[f].log[1].done
    /\ frames[f].log[Len(frames[f].log)].func = "f3"
    /\ ~frames[f].log[Len(frames[f].log)].done

\* C14: connect ends by returning a result whatever the outcome of its
\* attempts: it never ends by a fault, the result says success exactly when
\* the last attempt succeeded, and in particular an attempt that raised a
\* fault yields a result with success false.
C14_OutcomeIsResult ==
  lastOp.op = "connect" =>
    /\ ~lastOp.raised
    /\ lastOp.outcome \in {"success", "failure", "fault"}
    /\ lastOp.ret = (lastOp.outcome = "success")

\* connect has just returned { success: false } after an attempt in which
\* connection.connect raised a fault.
C14_Witness ==
  /\ lastOp.op = "connect" /\ lastOp.outcome = "fault"
  /\ ~lastOp.ret /\ ~lastOp.raised

\* The attempts a call of connect has started: those that have settled and
\* the one under way.
AttemptsStarted(fr) == fr.attempts + (IF fr.pc = "attempt" THEN 1 ELSE 0)

\* A call of connect never has started more attempts than one plus the
\* confirmations of its retry prompt, and is confirmed only if reconnecting.
C15_Count ==
  \A f \in 1..Len(frames) :
    frames[f].kind = "connect" =>
      /\ AttemptsStarted(frames[f]) <= frames[f].confirms + 1
      /\ frames[f].confirms > 0 => frames[f].recon

\* What a step does to a call of connect whose attempt has failed: a call
\* that is not reconnecting returns the failure; a reconnecting one asks,
\* and the answer either is Yes and starts the next attempt or ends the
\* call, which returns the failure.
C15_Step ==
  \A f \in 1..Len(frames) :
    LET fr == frames[f]
        kept == f <= Len(frames') /\ frames'[f].kind = "connect"
                  /\ frames'[f].h = fr.h
        same == f <= Len(frames') /\ frames'[f] = fr
        returned == /\ lastOp'.op = "connect" /\ lastOp'.h = fr.h
                    /\ ~lastOp'.ret
                    /\ ~kept
    IN /\ (fr.kind = "connect" /\ fr.pc = "disconnect") =>
            \/ same
            \/ fr.recon /\ kept /\ frames'[f] = [fr EXCEPT !.pc = "prompt"]
            \/ ~fr.recon /\ returned
       /\ (fr.kind = "connect" /\ fr.pc = "prompt") =>
            \/ same
            \/ kept /\ frames'[f] = [fr EXCEPT !.pc = "attempt",
                                               !.confirms = @ + 1]
            \/ returned

\* C15: inside one call of connect another attempt is started after a
\* failed one only if the call is reconnecting and the user has confirmed
\* the prompt shown for that failure; otherwise the loop ends and the
\* failure is returned; the attempts never exceed the confirmations plus
\* one.
C15_RetryOnlyConfirmed == [][C15_Step]_vars /\ []C15_Count

\* The second attempt of a reconnecting call is under way, after the user
\* confirmed the prompt for the failure of the first.
C15_Witness ==
  \E f \in 1..Len(frames) :
    /\ frames[f].kind = "connect" /\ frames[f].pc = "attempt"
    /\ frames[f].recon /\ frames[f].attempts = 1 /\ frames[f].confirms = 1

\* The activation f of this state is not, unchanged, one of the next state.
Moved(f) == ~(f <= Len(frames') /\ frames'[f] = frames[f])

\* The activations of the next state that this state does not have.
Begun(kind) ==
  {g \in 1..Len(frames') :
     /\ frames'[g].kind = kind
     /\ g > Len(frames) \/ frames[g].kind # kind \/ frames[g].h # frames'[g].h
          \/ (kind = "disconnect" /\ Moved(g))}

\* The answer to `Connection lost` for handle h: the handle is disposed
\* and a disconnect that nobody awaits is under way; on Yes one call of
\* connect is begun, for the same connection and reconnecting, with a new
\* handle and its first attempt under way; otherwise no call of connect is
\* begun and no handle made.
C16_Answer ==
  \A f \in 1..Len(frames) :
    (frames[f].kind = "timeout" /\ frames[f].pc = "prompt" /\ Moved(f)) =>
      /\ handles'[frames[f].h].state = "disposed"
      /\ \E d \in Begun("disconnect") : frames'[d].parent = None
      /\ \/ /\ Len(handles') = Len(handles) + 1
            /\ \E g \in 1..Len(frames') :
                 /\ Begun("connect") = {g}
                 /\ frames'[g].h = Len(handles')
                 /\ frames'[g].name = frames[f].name
                 /\ frames'[g].recon
                 /\ frames'[g].pc = "attempt" /\ frames'[g].attempts = 0
         \/ /\ Len(handles') = Len(handles)
            /\ Begun("connect") = {}

\* The disconnect that nobody awaits ends with no current connection and
\* no connection name in the storage.
C16_TornDown ==
  \A f \in 1..Len(frames) :
    (frames[f].kind = "disconnect" /\ frames[f].parent = None /\ Moved(f)) =>
      /\ connection' = None /\ storageName' = ""

\* A handle has at most one `Connection lost` prompt, and only a handle
\* whose drop was reported has one.
C16_AskedOnce ==
  \A h \in 1..Len(handles) :
    LET asked == {f \in 1..Len(frames) :
                    frames[f].kind = "timeout" /\ frames[f].h = h}
    IN /\ Cardinality(asked) <= 1
       /\ asked # {} => handles[h].dropped

FiresFor(ev) ==
  {f \in 1..Len(frames) : /\ frames[f].kind = "processEvent"
                          /\ frames[f].ev = ev /\ frames[f].src # None}

\* C17: every function called for a `connected` event finds the handle the
\* event is fired for installed: getConnection() is that handle and the last
\* connection of the global storage is its connection name.
C17_SeesInstalled ==
  \A f \in FiresFor("connected") :
    \A a \in 1..Len(frames[f].log) :
      /\ frames[f].log[a].conn = frames[f].src
      /\ frames[f].log[a].last = handles[frames[f].src].name

\* C18: every function called for a `disconnected` event finds the teardown
\* done: getConnection() is absent and the connection name of the storage
\* is cleared.
C18_SeesCleared ==
  \A f \in FiresFor("disconnected") :
    \A a \in 1..Len(frames[f].log) :
      /\ frames[f].log[a].conn = None
      /\ frames[f].log[a].store = ""

\* The calls of the function registered under key k for ev: those of the
\* finished fires and those of the fires under way.
Calls(ev, k) ==
  {c \in (1..Len(fireLog)) \X (1..MaxSubs) :
     /\ fireLog[c[1]].ev = ev /\ c[2] <= Len(fireLog[c[1]].log)
     /\ fireLog[c[1]].log[c[2]].key = k}

CallsUnderWay(ev, k) ==
  {c \in (1..Len(frames)) \X (1..MaxSubs) :
     /\ frames[c[1]].kind = "processEvent" /\ frames[c[1]].ev = ev
     /\ c[2] <= Len(frames[c[1]].log)
     /\ frames[c[1]].log[c[2]].key = k}

\* C19: a function subscribed as transient (under a key registered once) is
\* called at most once in all, whatever fires of its event follow one
\* another or overlap.
C19_TransientOnce ==
  \A ev \in Events :
    \A i \in 1..Len(history[ev]) :
      LET e == history[ev][i] IN
      (e.transient /\ RegisteredOnce(ev, e.key, Len(history[ev]))) =>
        Cardinality(Calls(ev, e.key)) + Cardinality(CallsUnderWay(ev, e.key)) <= 1

\* A call of connect starts an attempt on a handle it has already used only
\* if the handle is disposed.
C20_Retry ==
  \A f \in 1..Len(frames) :
    (/\ frames[f].kind = "connect" /\ frames[f].pc = "prompt"
     /\ f <= Len(frames') /\ frames'[f].kind = "connect"
     /\ frames'[f].pc = "attempt") =>
      handles[frames[f].h].state = "disposed"

\* A call of connect that returns after a failed attempt leaves the handle
\* disposed.
C20_Return ==
  (lastOp.op = "connect" /\ lastOp.outcome # "success") =>
    handles[lastOp.h].state = "disposed"

\* C20: the handle of a failed attempt is disposed before connect goes on:
\* no retry is started on a handle whose attempt failed and that has not
\* been disposed, and connect does not return before the handle is
\* disposed.
C20_DisposedBeforeRetry == [][C20_Retry]_vars /\ []C20_Return

\* The entries an event has (none when its Map has not been created).
EntriesOf(subs, ev) == IF ev \in DOMAIN subs THEN subs[ev] ELSE <<>>

\* The sequence m without the elements at the positions in R.
RECURSIVE Without(_, _)
Without(m, R) ==
  IF m = <<>> THEN <<>>
  ELSE LET rest == Without(SubSeq(m, 1, Len(m) - 1), R)
       IN IF Len(m) \in R THEN rest ELSE Append(rest, m[Len(m)])

\* Some fire of ev, finished or under way in the next state, has called the
\* entry e.
CalledBy(ev, e) ==
  \/ \E f \in 1..Len(frames') :
       /\ frames'[f].kind = "processEvent" /\ frames'[f].ev = ev
       /\ \E a \in 1..Len(frames'[f].log) :
            /\ frames'[f].log[a].key = e.key
            /\ frames'[f].log[a].func = e.func
            /\ frames'[f].log[a].transient = e.transient
  \/ \E n \in 1..Len(fireLog') :
       /\ fireLog'[n].ev = ev
       /\ \E a \in 1..Len(fireLog'[n].log) :
            /\ fireLog'[n].log[a].key = e.key
            /\ fireLog'[n].log[a].func = e.func
            /\ fireLog'[n].log[a].transient = e.transient

\* A step that is not a registration (a call of fire, or processEvent going
\* on) changes the entries of an event only by taking out transient entries
\* that a fire of the event has called; the others keep key, function and
\* order.
C21_OnlyTransientsGo ==
  lastOp'.op \notin {"subscribe", "onEvent"} =>
    \A ev \in Events :
      LET m == EntriesOf(subscribers, ev)
          n == EntriesOf(subscribers', ev)
      IN n # m =>
           \E R \in SUBSET (1..Len(m)) :
             /\ n = Without(m, R)
             /\ \A p \in R : m[p].transient /\ CalledBy(ev, m[p])

\* A call of fire for an event without entries calls nothing and leaves
\* every entry of every event as it is.
C21_EmptyFire ==
  (lastOp'.op = "fire" /\ EntriesOf(subscribers, lastOp'.ev) = <<>>) =>
    /\ \A ev \in Events :
         EntriesOf(subscribers', ev) = EntriesOf(subscribers, ev)
    /\ Len(fireLog') = Len(fireLog) + 1
    /\ fireLog'[Len(fireLog')].ev = lastOp'.ev
    /\ fireLog'[Len(fireLog')].log = <<>>
    /\ frames' = frames

\* C21: a fire changes the entries of its event only by removing the
\* transient entries it has called: every other entry keeps its key, its
\* function and its place whatever fires take place, and a fire of an event
\* without entries calls nothing and changes no entry.
C21_FireKeepsEntries == [][C21_OnlyTransientsGo /\ C21_EmptyFire]_vars

\* A step that is a call of onEvent adds one entry at the end of the
\* event's entries: not transient, under a key the event did not have, all
\* entries there were being left as they are.
C22_OnEventAdds ==
  lastOp'.op = "onEvent" =>
    LET ev == lastOp'.ev
        m == EntriesOf(subscribers, ev)
        n == EntriesOf(subscribers', ev)
    IN /\ Len(n) = Len(m) + 1
       /\ SubSeq(n, 1, Len(m)) = m
       /\ ~n[Len(n)].transient
       /\ ~HasKey(m, n[Len(n)].key)
       /\ \A o \in Events \ {ev} :
            EntriesOf(subscribers', o) = EntriesOf(subscribers, o)

\* A finished fire has called entries of either origin alike: in the order
\* of their insertion (keys registered once), one at a time, no fault of a
\* function having ended it, and, when no other fire overlapped it and no
\* key was registered twice, all the entries present when it began.
C22_OneCollection ==
  \A n \in 1..Len(fireLog) :
    LET L == fireLog[n] IN
    /\ ~L.faulted
    /\ \A a \in 1..Len(L.log) : L.log[a].done
    /\ \A a, b \in 1..Len(L.log) :
         (/\ a < b
          /\ RegisteredOnce(L.ev, L.log[a].key, L.upto)
          /\ RegisteredOnce(L.ev, L.log[b].key, L.upto)) =>
           FirstInsertion(L.ev, L.log[a].key)
             < FirstInsertion(L.ev, L.log[b].key)
    /\ (~L.overlapped /\ NoRepeat(Registered(L.ev, L.upto))) =>
         \A i \in 1..Len(L.snap) :
           \E a \in 1..Len(L.log) : L.log[a].key = L.snap[i]

\* C22: the entries made by onEvent and those made by subscribe are in the
\* same Map of their event: a fire calls both in the one order of
\* insertion, one at a time and going on after a fault, and every call of
\* onEvent adds a new, non-transient entry and replaces none, also for a
\* function registered before.
C22_SameRegistry == [][C22_OnEventAdds]_vars /\ []C22_OneCollection

\* A fire has called, in this order, a function registered by onEvent that
\* failed, a function registered by subscribe, and the first function again,
\* registered by onEvent a second time.
C22_Witness ==
  \E n \in 1..Len(fireLog) :
    LET L == fireLog[n] IN
    /\ Len(L.log) = 3
    /\ L.log[1].key = DeprecatedKey("f3", 0) /\ L.log[1].fault
    /\ L.log[2].key \in SubscriberKeys /\ ~L.log[2].fault
    /\ L.log[3].key = DeprecatedKey("f3", 1) /\ L.log[3].fault
    /\ L.log[1].func = L.log[3].func

\* C23: in every state the connection name of the storage is the one of the
\* current handle, and is empty when there is no current handle.
C23_StorageFollowsSlot ==
  storageName = IF connection = None THEN "" ELSE handles[connection].name

\* Nothing is under way: no call has still to return, no microtask is left.
Quiet == frames = <<>> /\ mq = <<>>

\* The current handle leaves the slot only disposed: no step clears or
\* replaces the slot of a handle that is not disposed by then.
C24_NoStaleClear ==
  (connection # None /\ connection' # connection) =>
    handles'[connection].state = "disposed"

\* When nothing is under way any more, a handle connected in answer to a
\* drop, and not disposed since, is the current one, and the connection
\* name of the storage is not cleared.
C24_Settled ==
  \A h \in 1..Len(handles) :
    (/\ Quiet /\ handles[h].via # None
     /\ handles[h].nConnected = 1 /\ handles[h].state = "live") =>
      /\ connection = h
      /\ storageName # ""

CallEnds(f) ==
  /\ frames[f].kind = "processEvent" /\ frames[f].pc = "await"
  /\ \/ f > Len(frames')
     \/ frames'[f].kind # "processEvent"
     \/ Len(frames'[f].log) > Len(frames[f].log)

\* When the call of a transient entry whose function subscribed again under
\* the entry's own key is over, the event has the entry that function made.
C25_Survives ==
  \A f \in 1..Len(frames) :
    (CallEnds(f) /\ frames[f].func = "f5" /\ frames[f].tr) =>
      LET n == EntriesOf(subscribers', frames[f].ev) IN
      /\ HasKey(n, frames[f].key)
      /\ n[PosOf(n, frames[f].key)].func = "f1"
      /\ ~n[PosOf(n, frames[f].key)].transient

\* Of two fires of an event, the second begun after the first had finished:
\* when the first has called a transient entry whose function subscribed
\* again under the entry's key, and nothing else was registered under that
\* key, the second calls the entry made by that function.
C25_NextFireCalls ==
  \A i, j \in 1..Len(fireLog) :
    LET A == fireLog[i]
        B == fireLog[j]
    IN (i <= B.after /\ A.ev = B.ev) =>
         \A a \in 1..Len(A.log) :
           LET e == A.log[a] IN
           (/\ e.func = "f5" /\ e.transient
            /\ Cardinality({r \in 1..B.upto :
                              history[A.ev][r].key = e.key}) = 2) =>
             \E b \in 1..Len(B.log) :
               B.log[b].key = e.key /\ B.log[b].func = "f1"

\* C25: the entry a transient function registers under its own key while a
\* fire calls it survives the clean-up of the entry that was called, and
\* the next fire of the event calls it.
C25_ResubscribedSurvives == [][C25_Survives]_vars /\ []C25_NextFireCalls
====
